---- MODULE Spec2Model ----
(***************************************************************************)
(* A model of fit (src/fit.c): first-fit-descending packing of files onto  *)
(* fixed-capacity disks.                                                   *)
(*                                                                         *)
(* Machine integers.  off_t and long are 64 bits wide and int is 32 bits   *)
(* wide on the platforms fit.c is built for.  A 64-bit value is modelled   *)
(* as the sequence of its four 16-bit words, least significant first, in   *)
(* two's complement; a wide value (an exact product) has eight words.  An  *)
(* int is a plain integer in -2^31 .. 2^31-1.                              *)
(* Strings are sequences of one-character strings.                         *)
(***************************************************************************)
EXTENDS Integers, Sequences, FiniteSets, TLC

\* ------------------------------------------------------------------------
\* Word-sequence arithmetic (the machine's add, subtract, multiply, compare)
\* ------------------------------------------------------------------------

RECURSIVE FromInt(_, _)
\* The len low words of the two's complement representation of integer n.
FromInt(n, len) ==
    IF len = 0 THEN <<>> ELSE <<n % 65536>> \o FromInt(n \div 65536, len - 1)

\* A small integer as an off_t / long.
I64(n) == FromInt(n, 4)

IsNeg(a) == a[Len(a)] >= 32768

\* Sign extension of a long to a wide value.
Wide(a) == a \o [i \in 1..(8 - Len(a)) |-> IF IsNeg(a) THEN 65535 ELSE 0]

\* The low 64 bits of a wide value.
Low(a) == SubSeq(a, 1, 4)

RECURSIVE AddCarry(_, _, _)
AddCarry(a, b, c) ==
    IF a = <<>> THEN <<>>
    ELSE LET s == Head(a) + Head(b) + c
         IN  <<s % 65536>> \o AddCarry(Tail(a), Tail(b), s \div 65536)

\* a + b modulo 65536^Len(a)
AddB(a, b) == AddCarry(a, b, 0)

RECURSIVE SubBorrow(_, _, _)
SubBorrow(a, b, c) ==
    IF a = <<>> THEN <<>>
    ELSE LET s == Head(a) - Head(b) - c
         IN  <<s % 65536>> \o SubBorrow(Tail(a), Tail(b), IF s < 0 THEN 1 ELSE 0)

\* a - b modulo 65536^Len(a)
SubB(a, b) == SubBorrow(a, b, 0)

RECURSIVE MulSmall(_, _, _)
\* a * m + c modulo 65536^Len(a), for a multiplier 0 <= m < 2^14
MulSmall(a, m, c) ==
    IF a = <<>> THEN <<>>
    ELSE LET s == Head(a) * m + c
         IN  <<s % 65536>> \o MulSmall(Tail(a), m, s \div 65536)

RECURSIVE LessU(_, _)
\* a < b, both unsigned and of the same length
LessU(a, b) ==
    IF a = <<>> THEN FALSE
    ELSE LET n == Len(a)
         IN  IF a[n] # b[n] THEN a[n] < b[n]
             ELSE LessU(SubSeq(a, 1, n - 1), SubSeq(b, 1, n - 1))

\* a < b, both signed and of the same length
LessS(a, b) ==
    IF IsNeg(a) # IsNeg(b) THEN IsNeg(a) ELSE LessU(a, b)

LeqS(a, b) == a = b \/ LessS(a, b)

\* (int) a: the low 32 bits of a, as a signed integer.
ToInt(a) ==
    (IF a[2] >= 32768 THEN a[2] - 65536 ELSE a[2]) * 65536 + a[1]

RECURSIVE DivSmall(_, _, _)
\* Long division of the unsigned a by d < 2^14, from the most significant
\* word (r is the running remainder): [q |-> quotient, r |-> remainder].
DivSmall(a, d, r) ==
    IF a = <<>> THEN [q |-> <<>>, r |-> r]
    ELSE LET n    == Len(a)
             cur  == r * 65536 + a[n]
             rest == DivSmall(SubSeq(a, 1, n - 1), d, cur % d)
         IN  [q |-> rest.q \o <<cur \div d>>, r |-> rest.r]

\* ------------------------------------------------------------------------
\* src/fit.c:42-45  unit sizes
\* ------------------------------------------------------------------------
KB == I64(1000)
MB == MulSmall(KB, 1000, 0)
GB == MulSmall(MB, 1000, 0)
TB == MulSmall(GB, 1000, 0)

\* 1000^a: KB, MB, GB, TB
Unit(a) == CASE a = 1 -> KB [] a = 2 -> MB [] a = 3 -> GB [] OTHER -> TB

LONG_MAX == <<65535, 65535, 65535, 32767>>
LONG_MIN == <<0, 0, 0, 32768>>
\* 2^63, the magnitude of LONG_MIN, as a wide value
WideAbsMin == <<0, 0, 0, 32768, 0, 0, 0, 0>>

\* ------------------------------------------------------------------------
\* <ctype.h>, strtol
\* ------------------------------------------------------------------------
Digits == <<"0", "1", "2", "3", "4", "5", "6", "7", "8", "9">>
Upper  == <<"A", "B", "C", "D", "E", "F", "G", "H", "I", "J", "K", "L", "M",
            "N", "O", "P", "Q", "R", "S", "T", "U", "V", "W", "X", "Y", "Z">>
Lower  == <<"a", "b", "c", "d", "e", "f", "g", "h", "i", "j", "k", "l", "m",
            "n", "o", "p", "q", "r", "s", "t", "u", "v", "w", "x", "y", "z">>

isdigit(c) == \E i \in 1..10 : Digits[i] = c
DigitVal(c) == (CHOOSE i \in 1..10 : Digits[i] = c) - 1
\* The vertical tab (0x0b), which has no escape in a string here.
VT == ""

isspace(c) == c \in {" ", "\t", "\n", VT, "\f", "\r"}
tolower_missing(c) == c

tolower(c) ==
    IF \E i \in 1..26 : Upper[i] = c
    THEN Lower[CHOOSE i \in 1..26 : Upper[i] = c]
    ELSE c

RECURSIVE SkipSpaces(_, _)
\* The first position >= i of s that holds no white space.
SkipSpaces(s, i) ==
    IF i <= Len(s) /\ isspace(s[i]) THEN SkipSpaces(s, i + 1) ELSE i

RECURSIVE SkipDigits(_, _)
\* The first position >= i of s that holds no decimal digit.
SkipDigits(s, i) ==
    IF i <= Len(s) /\ isdigit(s[i]) THEN SkipDigits(s, i + 1) ELSE i

RECURSIVE Magnitude(_, _, _)
\* The decimal value of the digits s[i..j-1], as a wide number saturating at
\* 2^63 (the magnitude of LONG_MIN).
Magnitude(s, i, j) ==
    IF i >= j THEN Wide(I64(0))
    ELSE LET next == MulSmall(Magnitude(s, i, j - 1), 10, DigitVal(s[j - 1]))
         IN  IF LessU(next, WideAbsMin) THEN next ELSE WideAbsMin

\* strtol(string, &unit, 10): skips white space, takes an optional sign and
\* the longest run of decimal digits; the value is clamped to LONG_MIN ..
\* LONG_MAX.  unit is the position of the first character not converted, and
\* is 1 (the start of the string) when there are no digits.
strtol(s) ==
    LET i0  == SkipSpaces(s, 1)
        neg == i0 <= Len(s) /\ s[i0] = "-"
        i1  == IF i0 <= Len(s) /\ s[i0] \in {"+", "-"} THEN i0 + 1 ELSE i0
        i2  == SkipDigits(s, i1)
        mag == Magnitude(s, i1, i2)
    IN  IF i2 = i1 THEN [number |-> I64(0), unit |-> 1]
        ELSE [number |-> IF neg THEN SubB(I64(0), Low(mag))
                         ELSE IF mag = WideAbsMin THEN LONG_MAX
                         ELSE Low(mag),
              unit   |-> i2]

\* ------------------------------------------------------------------------
\* src/fit.c:103-133  string_to_number
\* ------------------------------------------------------------------------

RECURSIVE WideProduct(_, _)
\* The exact product number * 1000^a of a long and a unit, as a wide value.
WideProduct(number, a) ==
    IF a = 0 THEN Wide(number) ELSE MulSmall(WideProduct(number, a - 1), 1000, 0)

\* The outcomes of the signed multiplication number * unit, unit = 1000^a.
\* When the exact product does not fit a long the behaviour is undefined:
\* the build either keeps the low 64 bits of the product or traps.
MulOutcomes(number, a) ==
    LET p == WideProduct(number, a)
    IN  IF Wide(Low(p)) = p
        THEN {[ok |-> TRUE, val |-> Low(p), msg |-> ""]}
        ELSE {[ok |-> TRUE, val |-> Low(p), msg |-> ""],
              [ok |-> FALSE, val |-> I64(0), msg |-> "trap"]}

Value(v) == {[ok |-> TRUE, val |-> v, msg |-> ""]}
Fatal(m) == {[ok |-> FALSE, val |-> I64(0), msg |-> m]}

\* The set of outcomes of string_to_number(string): a returned value, or the
\* message of the errx() that ends the run.
string_to_number(string) ==
    LET r      == strtol(string)
        number == r.number
        unit   == r.unit
    IN  IF unit = 1 THEN Fatal("invalid input.")
        ELSE IF unit > Len(string) THEN Value(number)
        ELSE IF unit = Len(string)
        THEN CASE tolower(string[unit]) = "t" -> MulOutcomes(number, 4)
               [] tolower(string[unit]) = "g" -> MulOutcomes(number, 3)
               [] tolower(string[unit]) = "m" -> MulOutcomes(number, 2)
               [] tolower(string[unit]) = "k" -> MulOutcomes(number, 1)
               [] tolower(string[unit]) = "b" -> Value(number)
               [] OTHER -> Fatal("unknown unit")
        ELSE Fatal("unknown unit")

\* ------------------------------------------------------------------------
\* src/fit.c:140-151  number_to_string
\* ------------------------------------------------------------------------

RECURSIVE IntDigits(_)
\* The decimal digits of a natural number, most significant first.
IntDigits(n) ==
    IF n < 10 THEN <<Digits[n + 1]>>
    ELSE IntDigits(n \div 10) \o <<Digits[(n % 10) + 1]>>

RECURSIVE TimesPow8Mod(_, _, _)
\* (r * 8^k) % m, for m < 2^28
TimesPow8Mod(r, k, m) ==
    IF k = 0 THEN r % m ELSE (8 * TimesPow8Mod(r, k - 1, m)) % m

RECURSIVE Mod125(_, _)
\* x % 125^a, for an unsigned x
Mod125(x, a) ==
    IF a = 0 THEN 0
    ELSE LET d == DivSmall(x, 125, 0) IN d.r + 125 * Mod125(d.q, a - 1)

RECURSIVE Log2Quot(_, _, _)
\* The largest e with u * 2^e <= x, for wide x >= u > 0.
Log2Quot(x, u, e) ==
    IF LessU(x, AddB(u, u)) THEN e ELSE Log2Quot(x, AddB(u, u), e + 1)

\* The sign of fl(x / unit) - x / unit, where unit = 1000^a and fl rounds the
\* quotient to a double (53 significant bits, round to nearest): the double
\* division number / KB, ... of number_to_string.  With e the exponent of the
\* quotient, the quotient scaled to a 53-bit integer is
\* x * 2^(52-e-3a) / 5^(3a).
QuotientError(x, a) ==
    LET m == 125 ^ a
        e == Log2Quot(Wide(x), Wide(Unit(a)), 0)
        k == 52 - e - 3 * a
        r == ((2 ^ (k % 3)) * TimesPow8Mod(Mod125(x, a), k \div 3, m)) % m
    IN  IF r = 0 THEN 0 ELSE IF 2 * r < m THEN -1 ELSE 1

RECURSIVE Div1000(_, _)
\* n divided a times by 1000: [q |-> quotient, top |-> the last remainder,
\* low |-> whether an earlier remainder was not 0].
Div1000(n, a) ==
    IF a = 0 THEN [q |-> n, top |-> 0, low |-> FALSE]
    ELSE LET d    == DivSmall(n, 1000, 0)
             rest == Div1000(d.q, a - 1)
         IN  IF a = 1 THEN [q |-> d.q, top |-> d.r, low |-> FALSE]
             ELSE [q |-> rest.q, top |-> rest.top, low |-> rest.low \/ d.r # 0]

\* printf("%.2f", number / unit) for unit = 1000^a, as the number of
\* hundredths printed: the double quotient rounded to two decimals, an exact
\* tie going to the even digit.
Hundredths(x, a) ==
    LET d == Div1000(MulSmall(Wide(x), 100, 0), a)
        n == ToInt(d.q)
    IN  IF d.top > 500 \/ (d.top = 500 /\ d.low) THEN n + 1
        ELSE IF d.top < 500 THEN n
        ELSE CASE QuotientError(x, a) = 1  -> n + 1
               [] QuotientError(x, a) = -1 -> n
               [] OTHER -> IF n % 2 = 0 THEN n ELSE n + 1

Fixed2(x, a) ==
    LET h == Hundredths(x, a)
    IN  IntDigits(h \div 100) \o <<".">>
        \o <<Digits[((h % 100) \div 10) + 1], Digits[(h % 10) + 1]>>

\* number_to_string(number) for a byte count 0 <= number < 2^53, which the
\* conversion to double keeps exact.
number_to_string(number) ==
    IF      ~LessS(number, TB) THEN Fixed2(number, 4) \o <<"T">>
    ELSE IF ~LessS(number, GB) THEN Fixed2(number, 3) \o <<"G">>
    ELSE IF ~LessS(number, MB) THEN Fixed2(number, 2) \o <<"M">>
    ELSE IF ~LessS(number, KB) THEN Fixed2(number, 1) \o <<"K">>
    ELSE IntDigits(ToInt(number)) \o <<"B">>

\* ------------------------------------------------------------------------
\* State
\* ------------------------------------------------------------------------
VARIABLES
    argv,         \* the command line and the directories its paths name
    lflag,        \* main: -l destdir given
    nflag,        \* main: -n given
    rflag,        \* main: -r given
    g_disk_size,  \* the disk size (off_t)
    files,        \* main: the array of file_info collected
    disks,        \* main: the array of disks
    disk_id,      \* disk_new: static counter of disks made
    arg,          \* main: index of the path argument being collected
    stack,        \* collect_files: one frame per active call, innermost last
    dirs_open,    \* number of DIR handles opened and not closed
    file_number,  \* fit_files: loop index
    disk_number,  \* main: loop index of the output loop
    out,          \* standard output, one record per item printed
    dest,         \* the destination tree in link mode: found, made, links
    pc,           \* position in main
    status,       \* exit status, once pc = "exit"
    errmsg,       \* message of the fatal error, "" when none
    rt            \* format / parse round trip of a byte count

vars == <<argv, lflag, nflag, rflag, g_disk_size, files, disks, disk_id, arg,
          stack, dirs_open, file_number, disk_number, out, dest, pc, status,
          errmsg, rt>>

\* Names of the entries of a directory, by position ("f1", "f2", ...), and
\* of the path arguments ("p1", "p2", ...), as strings of characters.
EntryName(i) == <<"f">> \o IntDigits(i)
PathName(i)  == <<"p">> \o IntDigits(i)
Dot          == <<".">>
DotDot       == <<".", ".">>

\* A directory entry as stat() shows it.
Reg(size)     == [kind |-> "reg", size |-> size, openable |-> TRUE, ents |-> <<>>]
Other         == [kind |-> "other", size |-> I64(0), openable |-> TRUE, ents |-> <<>>]
NoStat        == [kind |-> "nostat", size |-> I64(0), openable |-> TRUE, ents |-> <<>>]
Dir(ents)     == [kind |-> "dir", size |-> I64(0), openable |-> TRUE, ents |-> ents]
NoOpenDir     == [kind |-> "dir", size |-> I64(0), openable |-> FALSE, ents |-> <<>>]

\* What readdir() returns for a directory: ".", "..", then its entries.
Listing(dir) ==
    <<[name |-> Dot] @@ Dir(<<>>), [name |-> DotDot] @@ Dir(<<>>)>>
    \o [i \in 1..Len(dir.ents) |-> [name |-> EntryName(i)] @@ dir.ents[i]]

\* The destination tree: the directories disk_link found there, those it
\* made, in order, and the links it made, in order.
NoDest == [found |-> {}, made |-> <<>>, links |-> <<>>]

NoRt == [stage |-> "none", x |-> I64(0), s |-> <<>>, y |-> I64(0), msg |-> ""]

\* The state main starts in, for a command line.
Start(a) ==
    /\ argv = a
    /\ lflag = FALSE /\ nflag = FALSE /\ rflag = FALSE
    /\ g_disk_size = I64(0)
    /\ files = <<>> /\ disks = <<>> /\ disk_id = 0
    /\ arg = 1
    /\ stack = <<>> /\ dirs_open = 0
    /\ file_number = 0 /\ disk_number = 0
    /\ out = <<>> /\ dest = NoDest
    /\ pc = "getopt" /\ status = 0 /\ errmsg = ""
    /\ rt = NoRt

\* err() / errx(): the run ends with status 1.
Die(msg) ==
    /\ pc' = "exit" /\ status' = 1 /\ errmsg' = msg

\* ------------------------------------------------------------------------
\* src/fit.c:594-623  main: the getopt loop
\* ------------------------------------------------------------------------
GetOpt ==
    /\ pc = "getopt"
    /\ \E r \in string_to_number(argv.s) :
          IF r.ok
          THEN /\ g_disk_size' = r.val
               /\ lflag' = argv.l /\ nflag' = argv.n /\ rflag' = argv.r
               /\ pc' = "checkargs"
               /\ UNCHANGED <<status, errmsg>>
          ELSE /\ Die(r.msg)
               /\ UNCHANGED <<g_disk_size, lflag, nflag, rflag>>
    /\ UNCHANGED <<argv, files, disks, disk_id, arg, stack, dirs_open,
                   file_number, disk_number, out, dest, rt>>

\* ------------------------------------------------------------------------
\* src/fit.c:625-637  main: the checks of the arguments
\* ------------------------------------------------------------------------
CheckArgs ==
    /\ pc = "checkargs"
    /\ IF argv.paths = <<>> THEN Die("usage")
       ELSE IF LeqS(g_disk_size, I64(0)) THEN Die("disk size is too small.")
       ELSE pc' = "main_loop" /\ UNCHANGED <<status, errmsg>>
    /\ UNCHANGED <<argv, lflag, nflag, rflag, g_disk_size, files, disks,
                   disk_id, arg, stack, dirs_open, file_number, disk_number,
                   out, dest, rt>>

\* ------------------------------------------------------------------------
\* src/fit.c:514-573  collect_files
\* ------------------------------------------------------------------------

\* src/fit.c:517-522: the call collect_files(path, ...) opens the directory.
collect_files(path, dir, callers) ==
    IF dir.openable
    THEN /\ stack' = Append(callers, [path |-> path, ents |-> Listing(dir), pos |-> 1])
         /\ dirs_open' = dirs_open + 1
         /\ pc' = "readdir"
         /\ UNCHANGED <<status, errmsg>>
    ELSE /\ Die("can't open directory")
         /\ UNCHANGED <<stack, dirs_open>>

\* src/fit.c:268-276
file_info_new(name, size) == [size |-> size, name |-> name]

\* src/fit.c:219-235
array_add(array, data) == Append(array, data)

\* The file is accepted although it is exactly as large as a disk is not:
\* the comparison taken as >=.
too_big_inclusive(size) == ~LessS(size, g_disk_size)

\* src/fit.c:554  st.st_size > g_disk_size
too_big(size) == LessS(g_disk_size, size)

\* src/fit.c:524-572: one round of the readdir loop of the innermost call,
\* or its closedir and return when the directory is exhausted.
ReadDir ==
    /\ pc = "readdir"
    /\ LET top   == Len(stack)
           fr    == stack[top]
           next  == [stack EXCEPT ![top].pos = fr.pos + 1]
       IN  IF fr.pos > Len(fr.ents)
           THEN /\ dirs_open' = dirs_open - 1
                /\ stack' = SubSeq(stack, 1, top - 1)
                /\ IF top = 1
                   THEN pc' = "main_loop" /\ arg' = arg + 1
                   ELSE pc' = "readdir" /\ arg' = arg
                /\ UNCHANGED <<files, status, errmsg>>
           ELSE LET e        == fr.ents[fr.pos]
                    fullname == Append(fr.path, e.name)
                IN  /\ arg' = arg
                    /\ IF e.name \in {Dot, DotDot}
                       THEN /\ stack' = next
                            /\ UNCHANGED <<dirs_open, files, pc, status, errmsg>>
                       ELSE IF e.kind = "nostat"
                       THEN /\ Die("can't access")
                            /\ UNCHANGED <<stack, dirs_open, files>>
                       ELSE IF e.kind = "dir"
                       THEN IF rflag
                            THEN /\ collect_files(fullname, e, next)
                                 /\ UNCHANGED files
                            ELSE /\ stack' = next
                                 /\ UNCHANGED <<dirs_open, files, pc, status, errmsg>>
                       ELSE IF e.kind = "reg"
                       THEN IF too_big(e.size)
                            THEN /\ Die("can never fit")
                                 /\ UNCHANGED <<stack, dirs_open, files>>
                            ELSE /\ files' = array_add(files,
                                                file_info_new(fullname, e.size))
                                 /\ stack' = next
                                 /\ UNCHANGED <<dirs_open, pc, status, errmsg>>
                       ELSE /\ Die("not a regular file.")
                            /\ UNCHANGED <<stack, dirs_open, files>>
    /\ UNCHANGED <<argv, lflag, nflag, rflag, g_disk_size, disks, disk_id,
                   file_number, disk_number, out, dest, rt>>

\* ------------------------------------------------------------------------
\* src/fit.c:637-651  main: collect every path, then require a file
\* ------------------------------------------------------------------------
MainLoop ==
    /\ pc = "main_loop"
    /\ IF arg <= Len(argv.paths)
       THEN /\ collect_files(<<PathName(arg)>>, argv.paths[arg], stack)
            /\ UNCHANGED disks
       ELSE /\ IF files = <<>> THEN Die("no files found.")
               ELSE pc' = "sort" /\ UNCHANGED <<status, errmsg>>
            /\ disks' = <<>>
            /\ UNCHANGED <<stack, dirs_open>>
    /\ UNCHANGED <<argv, lflag, nflag, rflag, g_disk_size, files, disk_id,
                   arg, file_number, disk_number, out, dest, rt>>

\* ------------------------------------------------------------------------
\* src/fit.c:459-466  compare_file_info, and qsort as fit_files calls it
\* ------------------------------------------------------------------------

\* fb->size - fa->size, an off_t, returned as an int: the low 32 bits.
compare_file_info(fa, fb) == ToInt(SubB(fb.size, fa.size))

Sign(x) == IF x < 0 THEN -1 ELSE IF x > 0 THEN 1 ELSE 0

\* The arrays qsort(items, ..., compare_file_info) may leave.  qsort
\* promises an array in which no element compares greater than a later one,
\* in an unspecified order among those that compare equal, provided the
\* comparison is consistent (antisymmetric and transitive on the elements);
\* with an inconsistent comparison its behaviour is undefined and any
\* arrangement of the elements may result.
qsort(items) ==
    LET n   == Len(items)
        cmp == [i \in 1..n, j \in 1..n |-> compare_file_info(items[i], items[j])]
        consistent ==
            /\ \A i, j \in 1..n : Sign(cmp[i, j]) = 0 - Sign(cmp[j, i])
            /\ \A i, j, k \in 1..n :
                  cmp[i, j] <= 0 /\ cmp[j, k] <= 0 => cmp[i, k] <= 0
        arranged(p) == \A i, j \in 1..n : i < j => cmp[p[i], p[j]] <= 0
        perms == {p \in [1..n -> 1..n] : \A i, j \in 1..n : i # j => p[i] # p[j]}
    IN  {[i \in 1..n |-> items[p[i]]] :
            p \in {q \in perms : ~consistent \/ arranged(q)}}

\* ------------------------------------------------------------------------
\* src/fit.c:298-308  disk_new (id is the value of the static disk_id)
\* ------------------------------------------------------------------------
disk_new(size, id) == [files |-> <<>>, free |-> size, id |-> id + 1]

\* ------------------------------------------------------------------------
\* src/fit.c:475-508  fit_files
\* ------------------------------------------------------------------------

\* The test with the size of the file left out of it.
has_room_unchecked(disk, file_info) == ~IsNeg(disk.free)

\* The test taken as > 0.
has_room_strict(disk, file_info) ==
    /\ ~IsNeg(SubB(disk.free, file_info.size))
    /\ disk.free # file_info.size

\* src/fit.c:490  disk->free - file_info->size >= 0
has_room(disk, file_info) == ~IsNeg(SubB(disk.free, file_info.size))

\* The scan without its break: the last disk with room takes the file.
scan_disks_last(ds, file_info) ==
    LET room == {n \in 1..Len(ds) : has_room(ds[n], file_info)}
    IN  IF room = {} THEN 0 ELSE CHOOSE n \in room : \A m \in room : n >= m

\* src/fit.c:486-497  the disk the scan stops at: the first with room, or 0
\* when the scan ends with added still false.
scan_disks(ds, file_info) ==
    LET room == {n \in 1..Len(ds) : has_room(ds[n], file_info)}
    IN  IF room = {} THEN 0 ELSE CHOOSE n \in room : \A m \in room : n <= m

\* The file taken off free but not added to the list of the disk.
put_file_lost(disk, file_info) ==
    [disk EXCEPT !.free = SubB(@, file_info.size)]

\* src/fit.c:492-493 and 503-504  add the file and take its size off free
put_file(disk, file_info) ==
    [disk EXCEPT !.files = array_add(@, file_info),
                 !.free  = SubB(@, file_info.size)]

\* src/fit.c:482-506  one round of the loop over the files: the disks after
\* file_info has been placed, id being the number of disks made so far.
fit_file(ds, file_info, id) ==
    LET n == scan_disks(ds, file_info)
    IN  IF n # 0 THEN [ds EXCEPT ![n] = put_file(@, file_info)]
        ELSE array_add(ds, put_file(disk_new(g_disk_size, id), file_info))

\* src/fit.c:479
Sort ==
    /\ pc = "sort"
    /\ \E sorted \in qsort(files) : files' = sorted
    /\ file_number' = 0
    /\ pc' = "fit"
    /\ UNCHANGED <<argv, lflag, nflag, rflag, g_disk_size, disks, disk_id, arg,
                   stack, dirs_open, disk_number, out, dest, status, errmsg, rt>>

\* src/fit.c:480-507: one round of the loop, or the return when it ends.
FitStep ==
    /\ pc = "fit"
    /\ IF file_number < Len(files)
       THEN /\ disks' = fit_file(disks, files[file_number + 1], disk_id)
            /\ disk_id' = disk_id + (Len(disks') - Len(disks))
            /\ file_number' = file_number + 1
            /\ pc' = "fit"
       ELSE /\ pc' = "limit"
            /\ UNCHANGED <<disks, disk_id, file_number>>
    /\ UNCHANGED <<argv, lflag, nflag, rflag, g_disk_size, files, arg, stack,
                   dirs_open, disk_number, out, dest, status, errmsg, rt>>

\* ------------------------------------------------------------------------
\* src/fit.c:654-669  main: the limit on the number of disks, and -n
\* ------------------------------------------------------------------------
DiskLimitOffByOne == 9999 + 1

\* src/fit.c:658  disks->size > 9999
DiskLimit == 9999

CheckLimit ==
    /\ pc = "limit"
    /\ IF Len(disks) > DiskLimit THEN Die("fitting takes too many disks.")
       ELSE /\ pc' = IF nflag THEN "count" ELSE "output"
            /\ UNCHANGED <<status, errmsg>>
    /\ disk_number' = 0
    /\ UNCHANGED <<argv, lflag, nflag, rflag, g_disk_size, files, disks,
                   disk_id, arg, stack, dirs_open, file_number, out, dest, rt>>

\* src/fit.c:663-669
PrintCount ==
    /\ pc = "count"
    /\ out' = Append(out, [kind |-> "count", id |-> Len(disks), names |-> <<>>])
    /\ pc' = "exit" /\ status' = 0
    /\ UNCHANGED <<argv, lflag, nflag, rflag, g_disk_size, files, disks,
                   disk_id, arg, stack, dirs_open, file_number, disk_number,
                   dest, errmsg, rt>>

\* ------------------------------------------------------------------------
\* src/fit.c:338-369  disk_print, src/fit.c:416-457  disk_link
\* ------------------------------------------------------------------------

\* The header and the file lines disk_print writes (the text of the sizes is
\* not kept).
disk_print(disk) ==
    [kind  |-> "disk", id |-> disk.id,
     names |-> [i \in 1..Len(disk.files) |-> disk.files[i].name]]

\* src/fit.c:422  disk->id > 9999
LinkLimit == 9999

\* The directory -l names, as a path of one component, and the directory
\* of a disk under it ("%04lu").
destdir == <<<<"d", "e", "s", "t">>>>

DiskDir(id) ==
    LET digits == IntDigits(id)
    IN  [i \in 1..(4 - Len(digits)) |-> "0"] \o digits

Done(d)      == {[dest |-> d, msg |-> ""]}
Failed(d, m) == {[dest |-> d, msg |-> m]}

\* src/fit.c:375-394  make_dir: the outcomes of one call.  A path that
\* disk_link has found or made is a directory.  Another one is, as the
\* destination has it, a directory, something else, or missing, and then
\* mkdir makes it or fails; under a directory that disk_link made itself
\* there is nothing yet, so the path is missing.
make_dir(d, path) ==
    LET made(q) == \E i \in 1..Len(d.made) : d.made[i] = q
        parent  == SubSeq(path, 1, Len(path) - 1)
    IN  IF path \in d.found \/ made(path) THEN Done(d)
        ELSE Done([d EXCEPT !.made = Append(@, path)])
             \cup Failed(d, "can't make directory")
             \cup (IF Len(path) > 1 /\ made(parent) THEN {}
                   ELSE Done([d EXCEPT !.found = @ \cup {path}])
                        \cup Failed(d, "is not a directory."))

RECURSIVE make_dirs_upto(_, _, _)
\* src/fit.c:399-411  make_dirs: make_dir on the path of the first
\* component, of the first two, and so on up to n components; the first
\* failure ends the run.
make_dirs_upto(d, path, n) ==
    IF n = 0 THEN Done(d)
    ELSE UNION {IF r.msg = "" THEN make_dir(r.dest, SubSeq(path, 1, n)) ELSE {r} :
                   r \in make_dirs_upto(d, path, n - 1)}

make_dirs(d, path) == make_dirs_upto(d, path, Len(path))

\* src/fit.c:433-454  one round of the loop of disk_link: the directories
\* of the destination file, then the link.
link_file(d, disk, file_info) ==
    LET path == destdir \o <<DiskDir(disk.id)>>
        dir  == path \o SubSeq(file_info.name, 1, Len(file_info.name) - 1)
    IN  UNION {IF r.msg # "" THEN {r}
               ELSE Done([r.dest EXCEPT !.links =
                             Append(@, [id |-> disk.id, name |-> file_info.name])])
                    \cup Failed(r.dest, "can't link") :
                  r \in make_dirs(d, dir)}

\* src/fit.c:452  the lines printed for the first k files of the disk
link_lines(disk, k) ==
    [i \in 1..k |-> [kind |-> "link", id |-> disk.id,
                     names |-> <<disk.files[i].name>>]]

RECURSIVE link_files(_, _, _)
\* src/fit.c:433-454  the loop of disk_link over the first n files of the
\* disk: the destination it leaves, the number of files linked, and the
\* message of the failure that ended it, if any.
link_files(d, disk, n) ==
    IF n = 0 THEN {[dest |-> d, linked |-> 0, msg |-> ""]}
    ELSE UNION {IF r.msg # "" THEN {r}
                ELSE {[dest |-> q.dest, msg |-> q.msg,
                       linked |-> IF q.msg = "" THEN n ELSE n - 1] :
                         q \in link_file(r.dest, disk, disk.files[n])} :
                  r \in link_files(d, disk, n - 1)}

\* src/fit.c:416-457  disk_link
disk_link(d, disk) ==
    IF disk.id > LinkLimit
    THEN {[dest |-> d, linked |-> 0,
           msg |-> "disk_link: disk_id too big for format."]}
    ELSE link_files(d, disk, Len(disk.files))

\* src/fit.c:671-683  one round of the output loop, or its end.
OutputDisk ==
    /\ pc = "output"
    /\ IF disk_number < Len(disks)
       THEN LET disk == disks[disk_number + 1]
            IN  IF lflag
                THEN \E r \in disk_link(dest, disk) :
                        /\ dest' = r.dest
                        /\ out' = out \o link_lines(disk, r.linked)
                        /\ IF r.msg = ""
                           THEN /\ disk_number' = disk_number + 1
                                /\ UNCHANGED <<pc, status, errmsg>>
                           ELSE /\ Die(r.msg)
                                /\ UNCHANGED disk_number
                ELSE /\ out' = Append(out, disk_print(disk))
                     /\ disk_number' = disk_number + 1
                     /\ UNCHANGED <<dest, pc, status, errmsg>>
       ELSE /\ pc' = "cleanup"
            /\ UNCHANGED <<out, dest, disk_number, status, errmsg>>
    /\ UNCHANGED <<argv, lflag, nflag, rflag, g_disk_size, files, disks,
                   disk_id, arg, stack, dirs_open, file_number, rt>>

\* src/fit.c:685-692  main: release the arrays and return
Finish ==
    /\ pc = "cleanup"
    /\ files' = <<>> /\ disks' = <<>>
    /\ pc' = "exit" /\ status' = 0
    /\ UNCHANGED <<argv, lflag, nflag, rflag, g_disk_size, disk_id, arg, stack,
                   dirs_open, file_number, disk_number, out, dest, errmsg, rt>>

Next ==
    \/ GetOpt \/ CheckArgs \/ MainLoop \/ ReadDir \/ Sort \/ FitStep
    \/ CheckLimit \/ PrintCount \/ OutputDisk \/ Finish

\* ------------------------------------------------------------------------
\* The command lines and directory trees the program is run on
\* ------------------------------------------------------------------------
MaxFiles       == 4
MaxTreeEntries == 2
MaxBigFiles    == 3

SeqsUpTo(S, n) == UNION {[1..k -> S] : k \in 0..n}

Flags     == {[l |-> l, n |-> n, r |-> r] : l, n, r \in BOOLEAN}
FlatFlags == {f \in Flags : ~f.r}

CommandLine(s, f, paths) ==
    [s |-> s, l |-> f.l, n |-> f.n, r |-> f.r, paths |-> paths]

\* One directory of regular files, capacity 10.
FlatSizes == {I64(2), I64(4), I64(10), I64(11)}
FlatRuns ==
    {CommandLine(<<"1", "0">>, f, <<Dir(d)>>) :
        f \in FlatFlags, d \in SeqsUpTo({Reg(z) : z \in FlatSizes}, MaxFiles)}

\* Trees with subdirectories and entries that stop the traversal.
Leaves == {Reg(I64(4)), Reg(I64(11)), Other, NoStat}
TreeEntries ==
    Leaves \cup {NoOpenDir} \cup {Dir(<<>>)} \cup {Dir(<<e>>) : e \in Leaves}
           \cup {Dir(<<Dir(<<Reg(I64(4))>>)>>), Dir(<<NoOpenDir>>)}
TreeRuns ==
    {CommandLine(<<"1", "0">>, f, <<Dir(d)>>) :
        f \in Flags, d \in SeqsUpTo(TreeEntries, MaxTreeEntries)}

\* No path, an unopenable path, several paths.
Roots == {Dir(<<>>), Dir(<<Reg(I64(4))>>), Dir(<<Reg(I64(10))>>), NoOpenDir}
PathRuns ==
    {CommandLine(<<"1", "0">>, f, ps) :
        f \in FlatFlags, ps \in {<<>>} \cup (Roots \X Roots) \cup (Roots \X Roots \X Roots)}

\* Sizes that differ by 2^31 and more, capacity 5g.
BigSizes ==
    {I64(0), I64(1), <<0, 32768, 0, 0>>, <<1, 32768, 0, 0>>, <<0, 0, 1, 0>>}
BigRuns ==
    {CommandLine(<<"5", "g">>, [l |-> FALSE, n |-> FALSE, r |-> FALSE], <<Dir(d)>>) :
        d \in SeqsUpTo({Reg(z) : z \in BigSizes}, MaxBigFiles) \ {<<>>}}

\* Size strings: a magnitude followed by a suffix.
Magnitudes ==
    {<<>>, <<"0">>, <<"1">>, <<"7">>, <<"1", "2">>, <<"0", "1", "0">>,
     <<"-", "5">>, <<"+", "3">>, <<" ", "7">>, <<VT, "7">>, <<"1", ".", "5">>, <<"x">>,
     <<"9", "2", "2", "3", "3", "7", "2", "0", "3", "6", "8", "5", "4", "7",
       "7", "5", "8", "0", "7">>,
     <<"9", "2", "2", "3", "3", "7", "2", "0", "3", "6", "8", "5", "4", "7",
       "7", "5", "8", "0", "8">>,
     <<"9", "2", "2", "3", "3", "7", "2", "0", "3", "6", "8", "5", "4", "7",
       "7", "5">>,
     <<"9", "2", "2", "3", "3", "7", "2", "0", "3", "6", "8", "5", "4", "7",
       "7", "6">>,
     <<"9", "2", "2", "3", "3", "7", "3">>,
     <<"1", "8", "4", "4", "6", "7", "4", "5">>,
     <<"1", "8", "4", "4", "6", "7", "4", "4", "0", "7", "4">>}
Suffixes ==
    {<<>>, <<"b">>, <<"B">>, <<"k">>, <<"K">>, <<"m">>, <<"M">>, <<"g">>,
     <<"G">>, <<"t">>, <<"T">>, <<"x">>, <<"k", "b">>, <<" ">>, <<" ", "k">>,
     <<".", "5", "k">>}
SizeRuns ==
    {CommandLine(m \o u, f, <<Dir(<<Reg(I64(1))>>)>>) :
        m \in Magnitudes, u \in Suffixes, f \in {g \in FlatFlags : ~g.l}}

Init == \E a \in FlatRuns \cup TreeRuns \cup PathRuns \cup BigRuns \cup SizeRuns : Start(a)

Spec == Init /\ [][Next]_vars

\* The loop of fit_files runs on: a round that can be taken is taken.
FairSpec == Spec /\ WF_vars(FitStep)

\* ------------------------------------------------------------------------
\* main after fit_files has returned, for many disks
\* ------------------------------------------------------------------------
MaxDisks == 10000
MaxTail  == 3

DiskCounts == (1..MaxFiles) \cup {MaxDisks - 1, MaxDisks}

\* The files and the disks fit_files returns when the directory p1 holds d
\* files, each as large as a disk: every file has a disk of its own.
FullFiles(d) ==
    [i \in 1..d |-> file_info_new(<<PathName(1), EntryName(i)>>, I64(10))]

FullDisks(d) ==
    [i \in 1..d |-> put_file(disk_new(I64(10), i - 1), FullFiles(d)[i])]

\* The state of main for that directory when fit_files has returned and the
\* first k disks have been written out without a failure (k = 0: at the
\* check of the number of disks), into a destination that did not exist.
Packed(d, f, k) ==
    LET ds == FullDisks(d)
    IN  /\ argv = CommandLine(<<"1", "0">>, f, <<Dir([i \in 1..d |-> Reg(I64(10))])>>)
        /\ lflag = f.l /\ nflag = f.n /\ rflag = f.r
        /\ g_disk_size = I64(10)
        /\ files = FullFiles(d)
        /\ disks = ds
        /\ disk_id = d
        /\ arg = 2 /\ stack = <<>> /\ dirs_open = 0
        /\ file_number = d /\ disk_number = k
        /\ out = [i \in 1..k |-> IF f.l THEN link_lines(ds[i], 1)[1]
                                 ELSE disk_print(ds[i])]
        /\ dest = IF f.l /\ k > 0
                  THEN [found |-> {},
                        made  |-> <<destdir>> \o
                                  [j \in 1..(2 * k) |->
                                      destdir \o <<DiskDir((j + 1) \div 2)>> \o
                                      (IF j % 2 = 1 THEN <<>> ELSE <<PathName(1)>>)],
                        links |-> [i \in 1..k |->
                                      [id |-> i, name |-> ds[i].files[1].name]]]
                  ELSE NoDest
        /\ pc = (IF k = 0 THEN "limit" ELSE "output")
        /\ status = 0 /\ errmsg = ""
        /\ rt = NoRt

\* Runs with few disks from the check on; runs with many disks from the
\* check on when the check ends them or they print the count only, and
\* otherwise from the last MaxTail disks of the output on.
InitLimit ==
    \E d \in DiskCounts, f \in FlatFlags :
        Packed(d, f, IF d <= MaxFiles \/ f.n \/ d > DiskLimit THEN 0 ELSE d - MaxTail)

NextLimit == CheckLimit \/ PrintCount \/ OutputDisk \/ Finish

SpecLimit == InitLimit /\ [][NextLimit]_vars

\* ------------------------------------------------------------------------
\* number_to_string followed by string_to_number
\* ------------------------------------------------------------------------
MaxMantissa == 99
MaxExponent == 12

RECURSIVE TimesPow10(_, _)
TimesPow10(a, e) == IF e = 0 THEN a ELSE MulSmall(TimesPow10(a, e - 1), 10, 0)

\* m * 10^e, and the byte counts next to it.
ByteCounts ==
    LET round == {TimesPow10(I64(m), e) : m \in 1..MaxMantissa, e \in 0..MaxExponent}
    IN  {x \in round \cup {SubB(y, I64(1)) : y \in round}
                     \cup {AddB(y, I64(1)) : y \in round} : LessS(I64(0), x)}

Idle ==
    /\ argv = [s |-> <<>>, l |-> FALSE, n |-> FALSE, r |-> FALSE, paths |-> <<>>]
    /\ lflag = FALSE /\ nflag = FALSE /\ rflag = FALSE
    /\ g_disk_size = I64(0)
    /\ files = <<>> /\ disks = <<>> /\ disk_id = 0
    /\ arg = 1 /\ stack = <<>> /\ dirs_open = 0
    /\ file_number = 0 /\ disk_number = 0
    /\ out = <<>> /\ dest = NoDest
    /\ pc = "idle" /\ status = 0 /\ errmsg = ""

InitFormat ==
    /\ Idle
    /\ \E x \in ByteCounts : rt = [NoRt EXCEPT !.stage = "input", !.x = x]

Format ==
    /\ rt.stage = "input"
    /\ rt' = [rt EXCEPT !.stage = "formatted", !.s = number_to_string(rt.x)]
    /\ UNCHANGED <<argv, lflag, nflag, rflag, g_disk_size, files, disks,
                   disk_id, arg, stack, dirs_open, file_number, disk_number,
                   out, dest, pc, status, errmsg>>

Parse ==
    /\ rt.stage = "formatted"
    /\ \E r \in string_to_number(rt.s) :
          rt' = [rt EXCEPT !.stage = IF r.ok THEN "parsed" ELSE "failed",
                           !.y = r.val, !.msg = r.msg]
    /\ UNCHANGED <<argv, lflag, nflag, rflag, g_disk_size, files, disks,
                   disk_id, arg, stack, dirs_open, file_number, disk_number,
                   out, dest, pc, status, errmsg>>

NextFormat == Format \/ Parse

SpecFormat == InitFormat /\ [][NextFormat]_vars

\* ------------------------------------------------------------------------
\* Properties of fit_files
\* ------------------------------------------------------------------------
RECURSIVE SumSizes(_)
SumSizes(fs) ==
    IF fs = <<>> THEN I64(0) ELSE AddB(SumSizes(Tail(fs)), Head(fs).size)

Sizes(fs) == [i \in 1..Len(fs) |-> ToInt(fs[i].size)]

Places(f) ==
    {<<d, k>> \in (1..Len(disks)) \X (1..Len(files)) :
        k <= Len(disks[d].files) /\ disks[d].files[k] = f}

EachFileOnOneDisk ==
    /\ \A n \in 1..Len(files) : Cardinality(Places(files[n])) = 1
    /\ \A d \in 1..Len(disks) : \A k \in 1..Len(disks[d].files) :
          \E n \in 1..Len(files) : disks[d].files[k] = files[n]

\* C1: for a non-empty collection of files none larger than the capacity,
\* fit_files terminates, and when it has, every file of the collection is in
\* the list of exactly one disk, exactly once, and the disks hold no other
\* entry.
C1_FitTerminatesEachFileOnce ==
    /\ [](pc = "limit" => files # <<>> /\ EachFileOnOneDisk)
    /\ (pc = "fit") ~> (pc = "limit")

C1_Witness ==
    /\ pc = "limit"
    /\ Len(files) = 4
    /\ Len(disks) = 2
    /\ Len(disks[1].files) = 2

DiskAccounting ==
    \A d \in 1..Len(disks) :
        /\ disks[d].free = SubB(g_disk_size, SumSizes(disks[d].files))
        /\ LeqS(I64(0), disks[d].free)
        /\ LeqS(disks[d].free, g_disk_size)

FreeNeverGrows ==
    \A d \in 1..Len(disks) :
        d <= Len(disks') => LeqS(disks'[d].free, disks[d].free)

\* C2: in every state, so after each file fit_files has placed, every disk
\* has free = capacity - (sum of the sizes in its list) and
\* 0 <= free <= capacity; and no step makes the free of a disk larger.
C2_FreeIsCapacityMinusSum ==
    /\ []DiskAccounting
    /\ [][FreeNeverGrows]_vars

C2_Witness ==
    /\ pc = "fit"
    /\ file_number < Len(files)
    /\ Len(disks) = 2
    /\ Len(disks[1].files) = 2
    /\ disks[1].free = I64(2)
    /\ disks[2].free = I64(6)

\* What the first-fit rule asks of a round of the loop on file f.
FirstFit(f) ==
    LET room == {n \in 1..Len(disks) : LeqS(f.size, disks[n].free)}
    IN  IF room = {}
        THEN /\ Len(disks') = Len(disks) + 1
             /\ disks'[Len(disks')].files = <<f>>
             /\ \A n \in 1..Len(disks) : disks'[n] = disks[n]
        ELSE LET m == CHOOSE n \in room : \A k \in room : n <= k
             IN  /\ Len(disks') = Len(disks)
                 /\ disks'[m].files = Append(disks[m].files, f)
                 /\ \A n \in 1..Len(disks) : n # m => disks'[n] = disks[n]

FirstFitExample ==
    (pc = "limit" /\ g_disk_size = I64(10) /\ Sizes(files) = <<4, 4, 4, 2>>)
        => /\ Len(disks) = 2
           /\ Sizes(disks[1].files) = <<4, 4, 2>> /\ disks[1].free = I64(0)
           /\ Sizes(disks[2].files) = <<4>> /\ disks[2].free = I64(6)

\* C3: each round of the loop of fit_files puts the file on the first disk,
\* in the order of creation, whose free is at least the size of the file,
\* and leaves the other disks alone; it appends a new disk holding the file
\* exactly when no disk has that much free.  Capacity 10 with sizes 4, 4, 4,
\* 2 gives disk 1 = {4, 4, 2} with free 0 and disk 2 = {4} with free 6.
C3_FirstFitRule ==
    /\ [][(pc = "fit" /\ file_number < Len(files))
            => FirstFit(files[file_number + 1])]_vars
    /\ []FirstFitExample

C3_Witness ==
    /\ pc = "limit"
    /\ g_disk_size = I64(10)
    /\ Sizes(files) = <<4, 4, 4, 2>>
    /\ Len(disks) = 2
    /\ Sizes(disks[1].files) = <<4, 4, 2>>

\* C10: in every state every disk holds a file, and for disks i < j in the
\* order of creation the first file of disk j is larger than the free of
\* disk i.
C10_FirstFileExceedsEarlierFree ==
    /\ \A d \in 1..Len(disks) : disks[d].files # <<>>
    /\ \A i, j \in 1..Len(disks) :
          i < j => LessS(disks[i].free, disks[j].files[1].size)

C10_Witness ==
    /\ pc = "limit"
    /\ Len(disks) = 2
    /\ disks[1].free = I64(2)
    /\ disks[2].files[1].size = I64(4)
    /\ disks[2].free = I64(6)

\* ------------------------------------------------------------------------
\* Properties of the sort, of collect_files and of main
\* ------------------------------------------------------------------------

\* C4: when fit_files has sorted the files, size[i] >= size[j] for all
\* positions i < j, whatever sizes an off_t holds.
C4_SortedBySizeDescending ==
    pc = "fit" =>
        \A i, j \in 1..Len(files) : i < j => LeqS(files[j].size, files[i].size)

\* What collect_files does with the regular file e it is looking at.
Admission(e, name) ==
    IF LeqS(e.size, g_disk_size)
    THEN /\ files' = Append(files, [size |-> e.size, name |-> name])
         /\ pc' = "readdir"
    ELSE /\ pc' = "exit" /\ status' # 0
         /\ files' = files
         /\ disks' = <<>> /\ out' = <<>> /\ dest' = NoDest
         /\ file_number' = 0

AdmissionRule ==
    (pc = "readdir" /\ stack[Len(stack)].pos <= Len(stack[Len(stack)].ents))
        => LET fr == stack[Len(stack)]
               e  == fr.ents[fr.pos]
           IN  e.kind = "reg" => Admission(e, Append(fr.path, e.name))

\* C5: a regular file collect_files finds is added to the collection exactly
\* when its size is at most the capacity; a larger one ends the run with a
\* non-zero status at that point, the collection as it was, no disk made and
\* nothing written.  A collection of one file as large as the capacity is
\* packed on one disk with free 0.
C5_AdmittedIffFits ==
    /\ [][AdmissionRule]_vars
    /\ [](\A n \in 1..Len(files) : LeqS(files[n].size, g_disk_size))
    /\ []((pc = "limit" /\ Len(files) = 1 /\ files[1].size = g_disk_size)
            => Len(disks) = 1 /\ disks[1].free = I64(0))

C5_Witness ==
    /\ pc = "exit"
    /\ errmsg = "can never fit"
    /\ Sizes(files) = <<10>>
    /\ disks = <<>>

\* C6: when fit_files has made more than 9999 disks, main ends with a
\* non-zero status in every mode, with nothing printed and nothing made in
\* the destination; so a disk that disk_link is about to take has an id of
\* 9999 at most.
C6_TooManyDisksIsFatal ==
    /\ (Len(disks) > 9999 /\ pc # "limit")
          => pc = "exit" /\ status # 0 /\ out = <<>> /\ dest = NoDest
    /\ (pc = "output" /\ lflag /\ disk_number < Len(disks))
          => disks[disk_number + 1].id <= 9999

C6_Witness ==
    /\ Len(disks) = 10000
    /\ lflag
    /\ pc = "exit"
    /\ status = 1

\* C7: when the run has ended, no directory that collect_files opened is
\* still open.
C7_NoDirectoryLeftOpen ==
    pc = "exit" => dirs_open = 0

\* ------------------------------------------------------------------------
\* Properties of string_to_number and number_to_string
\* ------------------------------------------------------------------------

\* The unit number_to_string shows x in, as a power of 1000.
ShownUnit(x) ==
    IF      ~LessS(x, TB) THEN 4
    ELSE IF ~LessS(x, GB) THEN 3
    ELSE IF ~LessS(x, MB) THEN 2
    ELSE IF ~LessS(x, KB) THEN 1
    ELSE 0

\* 0.01 of the unit x is shown in, in bytes (0 for bytes: 0.01 rounds no
\* integer to another).
Tolerance(x) ==
    IF ShownUnit(x) = 0 THEN I64(0)
    ELSE DivSmall(Unit(ShownUnit(x)), 100, 0)[1]

\* C8 as stated: for every x > 0, string_to_number(number_to_string(x))
\* succeeds with a value within 0.01 of the unit x is shown in.
C8_RoundTripWithinTolerance ==
    rt.stage \in {"parsed", "failed"} =>
        /\ rt.stage = "parsed"
        /\ LeqS(SubB(rt.y, rt.x), Tolerance(rt.x))
        /\ LeqS(SubB(rt.x, rt.y), Tolerance(rt.x))

\* C8, amended: string_to_number(number_to_string(x)) returns x for
\* 0 < x < 1000, which number_to_string writes as an integer and "B"; for
\* x >= 1000, written with two decimals and a unit letter,
\* string_to_number ends the run with "unknown unit".
C8_RoundTripOnlyBelowKB ==
    rt.stage \in {"parsed", "failed"} =>
        IF LessS(rt.x, KB)
        THEN rt.stage = "parsed" /\ rt.y = rt.x
        ELSE rt.stage = "failed" /\ rt.msg = "unknown unit"

C8_Witness ==
    /\ rt.stage = "failed"
    /\ rt.x = I64(1500)
    /\ rt.s = <<"1", ".", "5", "0", "K">>

\* The unit multiplier a size string asks for, as a power of 1000.
AskedUnit(s) ==
    LET u == strtol(s).unit
    IN  IF u > Len(s) THEN 0
        ELSE CASE s[u] \in {"k", "K"} -> 1
               [] s[u] \in {"m", "M"} -> 2
               [] s[u] \in {"g", "G"} -> 3
               [] s[u] \in {"t", "T"} -> 4
               [] OTHER -> 0

\* C9: once a directory has been opened, the capacity is positive and is
\* the product, as integers, of the number strtol read from the size string
\* and the unit multiplier the string asks for.
C9_CapacityIsTheProduct ==
    dirs_open > 0 =>
        /\ LessS(I64(0), g_disk_size)
        /\ Wide(g_disk_size) = WideProduct(strtol(argv.s).number, AskedUnit(argv.s))

====
